---- MODULE Spec2Model ----
(***************************************************************************)
(* Model of PartialEnv, the typed environment-configuration loader.        *)
(* Two builds of the class exist in the repository:                        *)
(*   "lib"     - src/lib/envUtils.ts (required + OrNull variants)           *)
(*   "part000" - src/unnamed/part_000 (required variants only)              *)
(* Strings read from process.env are sequences of one-character strings,   *)
(* so that parseInt is computed and not assumed.                           *)
(***************************************************************************)
EXTENDS Integers, Sequences, FiniteSets, TLC

\* ------------------------------------------------------------------ bounds
MaxLen == 2

\* ------------------------------------------------------- JavaScript values
\* Every JavaScript value of the model has the same shape: a tag, the
\* characters of a string, the integer of a number.
Val(t, s, n) == [t |-> t, s |-> s, n |-> n]
Undef == Val("undefined", <<>>, 0)
Null == Val("null", <<>>, 0)
NaN == Val("NaN", <<>>, 0)
Str(s) == Val("string", s, 0)
Num(n) == Val("number", <<>>, n)

\* x == null  (true of null and of undefined)
IsNullish(v) == v.t \in {"undefined", "null"}

\* a < b on JavaScript numbers: false as soon as one side is NaN
Less(a, b) == a.t = "number" /\ b.t = "number" /\ a.n < b.n

\* A Set<T> option, or its absence.
SetOf(S) == [t |-> "set", members |-> S]
NoSet == [t |-> "undefined", members |-> {}]

\* ---------------------------------------------------------------- parseInt
WhiteSpace == {" ", "\t", "\n"}

DigitOf ==
  ("0" :> 0) @@ ("1" :> 1) @@ ("2" :> 2) @@ ("3" :> 3) @@ ("4" :> 4) @@
  ("5" :> 5) @@ ("6" :> 6) @@ ("7" :> 7) @@ ("8" :> 8) @@ ("9" :> 9) @@
  ("a" :> 10) @@ ("b" :> 11) @@ ("c" :> 12) @@ ("d" :> 13) @@ ("e" :> 14) @@
  ("f" :> 15) @@ ("A" :> 10) @@ ("B" :> 11) @@ ("C" :> 12) @@ ("D" :> 13) @@
  ("E" :> 14) @@ ("F" :> 15)

IsDigit(c, radix) == c \in DOMAIN DigitOf /\ DigitOf[c] < radix

RECURSIVE TrimStart(_)
TrimStart(s) ==
  IF s # <<>> /\ Head(s) \in WhiteSpace THEN TrimStart(Tail(s)) ELSE s

\* the longest prefix of s made of digits of the radix
RECURSIVE DigitPrefix(_, _)
DigitPrefix(s, radix) ==
  IF s # <<>> /\ IsDigit(Head(s), radix)
  THEN <<Head(s)>> \o DigitPrefix(Tail(s), radix)
  ELSE <<>>

RECURSIVE DigitsValue(_, _, _)
DigitsValue(s, radix, acc) ==
  IF s = <<>> THEN acc
  ELSE DigitsValue(Tail(s), radix, acc * radix + DigitOf[Head(s)])

\* parseInt(string) with no radix argument (ECMAScript): leading white space
\* is skipped, one sign is read, "0x"/"0X" selects radix 16, then the longest
\* prefix of digits is the value; no digit at all gives NaN.
IsNegative(S) == S # <<>> /\ Head(S) = "-"
StripSign(S) == IF S # <<>> /\ Head(S) \in {"+", "-"} THEN Tail(S) ELSE S
HasHexPrefix(S) == Len(S) >= 2 /\ S[1] = "0" /\ S[2] \in {"x", "X"}
RadixOf(S) == IF HasHexPrefix(S) THEN 16 ELSE 10
StripPrefix(S) == IF HasHexPrefix(S) THEN SubSeq(S, 3, Len(S)) ELSE S
Signed(negative, n) == Num(IF negative THEN 0 - n ELSE n)
MathInt(Z, radix, negative) ==
  IF Z = <<>> THEN NaN ELSE Signed(negative, DigitsValue(Z, radix, 0))
ParseUnsigned(S, negative) ==
  MathInt(DigitPrefix(StripPrefix(S), RadixOf(S)), RadixOf(S), negative)
ParseTrimmed(S) == ParseUnsigned(StripSign(S), IsNegative(S))
parseInt(str) == ParseTrimmed(TrimStart(str))

\* ------------------------------------------------- errors and notifications
\* new Error(`...`): the message template and the values interpolated in it.
Err(msg, name, raw, bound) == [msg |-> msg, name |-> name, raw |-> raw, bound |-> bound]
NoError == Err("", "", Undef, Undef)
\* the literal variable name written in the "unsupported ... value" message
UnsupportedLabel == "NODE_ENV"

NameIsNull == Err("envVarName is null", "", Undef, Undef)
MustBeDefined(envVarName) == Err("must be defined", envVarName, Undef, Undef)
Unsupported(valueStr) == Err("unsupported value", UnsupportedLabel, valueStr, Undef)
NotANumber(envVarName, valueStr) == Err("is not a number", envVarName, valueStr, Undef)
AtLeast(envVarName, valueStr, min) == Err("must be at least", envVarName, valueStr, min)
NoGreater(envVarName, valueStr, max) == Err("must be no greater than", envVarName, valueStr, max)

\* this.logger.warn(`${envVarName} not defined, using default ${defaultValue}`)
WarnDefault(envVarName, defaultValue) ==
  [level |-> "warn", msg |-> "not defined, using default", name |-> envVarName,
   value |-> defaultValue]
\* this.logger.error(`unsupported NODE_ENV value ${valueStr}`)
ErrorUnsupported(valueStr) ==
  [level |-> "error", msg |-> "unsupported value", name |-> UnsupportedLabel,
   value |-> valueStr]

\* What one call does: it returns a value or throws, having logged `notes`.
Return(v, notes) == [kind |-> "return", value |-> v, error |-> NoError, notes |-> notes]
Throw(e, notes) == [kind |-> "throw", value |-> Undef, error |-> e, notes |-> notes]

\* ------------------------------------------------------------- environment
\* the name argument when the caller passes null
NoName == "(null)"

\* process.env[envVarName]
Lookup(e, envVarName) == IF envVarName \in DOMAIN e THEN e[envVarName] ELSE Undef

\* options objects: `given` is FALSE when the caller passes no options
NoOptions == [given |-> FALSE, defaultValue |-> Undef, allowed |-> NoSet,
              min |-> Undef, max |-> Undef]
StringOptions(d, a) == [given |-> TRUE, defaultValue |-> d, allowed |-> a,
                        min |-> Undef, max |-> Undef]
NumberOptions(d, lo, hi) == [given |-> TRUE, defaultValue |-> d, allowed |-> NoSet,
                             min |-> lo, max |-> hi]

\* options.defaultValue !== undefined, with options != null
HasDefaultKey(options) == options.given /\ options.defaultValue # Undef
\* options && options.allowed && !options.allowed.has(valueStr)
NotAllowed(options, valueStr) ==
  options.given /\ options.allowed.t = "set" /\ valueStr.s \notin options.allowed.members

\* ------------------------------------------------- build "lib": envUtils.ts
\* parseEnvAsStringOrNull once process.env[envVarName] is read
StringOrNull_NoWarn(envVarName, options, valueStr) ==
  IF IsNullish(valueStr) /\ HasDefaultKey(options)
  THEN Return(options.defaultValue, <<>>)
  ELSE IF IsNullish(valueStr) THEN Throw(MustBeDefined(envVarName), <<>>)
  ELSE IF NotAllowed(options, valueStr)
  THEN Throw(Unsupported(valueStr), <<ErrorUnsupported(valueStr)>>)
  ELSE Return(valueStr, <<>>)

StringOrNull_AllowedSkipped(envVarName, options, valueStr) ==
  IF IsNullish(valueStr) /\ HasDefaultKey(options)
  THEN Return(options.defaultValue, <<WarnDefault(envVarName, options.defaultValue)>>)
  ELSE IF IsNullish(valueStr) THEN Throw(MustBeDefined(envVarName), <<>>)
  ELSE Return(valueStr, <<>>)

StringOrNullOf(envVarName, options, valueStr) ==
  IF IsNullish(valueStr) /\ HasDefaultKey(options)
  THEN Return(options.defaultValue, <<WarnDefault(envVarName, options.defaultValue)>>)
  ELSE IF IsNullish(valueStr) THEN Throw(MustBeDefined(envVarName), <<>>)
  ELSE IF NotAllowed(options, valueStr)
  THEN Throw(Unsupported(valueStr), <<ErrorUnsupported(valueStr)>>)
  ELSE Return(valueStr, <<>>)

parseEnvAsStringOrNull(e, envVarName, options) ==
  IF envVarName = NoName THEN Throw(NameIsNull, <<>>)
  ELSE StringOrNullOf(envVarName, options, Lookup(e, envVarName))

\* the required variants: `parsed` is what the OrNull variant did
Required_NoNullCheck(envVarName, parsed) == parsed

Required(envVarName, parsed) ==
  IF parsed.kind = "throw" THEN parsed
  ELSE IF IsNullish(parsed.value) THEN Throw(MustBeDefined(envVarName), parsed.notes)
  ELSE parsed

parseEnvAsString(e, envVarName, options) ==
  Required(envVarName, parseEnvAsStringOrNull(e, envVarName, options))

\* parseEnvAsNumberOrNull from `const value = parseInt(valueStr)` on
CheckNumber_MaxFirst(envVarName, options, valueStr, value) ==
  IF IsNullish(value) \/ value = NaN
  THEN Throw(NotANumber(envVarName, valueStr), <<>>)
  ELSE IF options.given /\ ~IsNullish(options.max) /\ Less(options.max, value)
  THEN Throw(NoGreater(envVarName, valueStr, options.max), <<>>)
  ELSE IF options.given /\ ~IsNullish(options.min) /\ Less(value, options.min)
  THEN Throw(AtLeast(envVarName, valueStr, options.min), <<>>)
  ELSE Return(value, <<>>)

CheckNumber(envVarName, options, valueStr, value) ==
  IF IsNullish(value) \/ value = NaN
  THEN Throw(NotANumber(envVarName, valueStr), <<>>)
  ELSE IF options.given /\ ~IsNullish(options.min) /\ Less(value, options.min)
  THEN Throw(AtLeast(envVarName, valueStr, options.min), <<>>)
  ELSE IF options.given /\ ~IsNullish(options.max) /\ Less(options.max, value)
  THEN Throw(NoGreater(envVarName, valueStr, options.max), <<>>)
  ELSE Return(value, <<>>)

\* parseEnvAsNumberOrNull once process.env[envVarName] is read
NumberOrNull_DefaultChecked(envVarName, options, valueStr) ==
  IF IsNullish(valueStr) /\ HasDefaultKey(options)
  THEN [ CheckNumber(envVarName, options, valueStr, options.defaultValue)
           EXCEPT !.notes = <<WarnDefault(envVarName, options.defaultValue)>> ]
  ELSE IF IsNullish(valueStr) THEN Throw(MustBeDefined(envVarName), <<>>)
  ELSE CheckNumber(envVarName, options, valueStr, parseInt(valueStr.s))

NumberOrNullOf(envVarName, options, valueStr) ==
  IF IsNullish(valueStr) /\ HasDefaultKey(options)
  THEN Return(options.defaultValue, <<WarnDefault(envVarName, options.defaultValue)>>)
  ELSE IF IsNullish(valueStr) THEN Throw(MustBeDefined(envVarName), <<>>)
  ELSE CheckNumber(envVarName, options, valueStr, parseInt(valueStr.s))

parseEnvAsNumberOrNull(e, envVarName, options) ==
  IF envVarName = NoName THEN Throw(NameIsNull, <<>>)
  ELSE NumberOrNullOf(envVarName, options, Lookup(e, envVarName))

parseEnvAsNumber(e, envVarName, options) ==
  Required(envVarName, parseEnvAsNumberOrNull(e, envVarName, options))

\* ------------------------------------------- build "part000": part_000
\* parseEnvAsString once process.env[envVarName] is read
String000_MissingReturned(envVarName, options, valueStr) ==
  IF IsNullish(valueStr)
  THEN Return(options.defaultValue, <<WarnDefault(envVarName, options.defaultValue)>>)
  ELSE IF NotAllowed(options, valueStr)
  THEN Throw(Unsupported(valueStr), <<ErrorUnsupported(valueStr)>>)
  ELSE Return(valueStr, <<>>)

String000Of(envVarName, options, valueStr) ==
  IF IsNullish(valueStr) /\ options.given /\ ~IsNullish(options.defaultValue)
  THEN Return(options.defaultValue, <<WarnDefault(envVarName, options.defaultValue)>>)
  ELSE IF IsNullish(valueStr) THEN Throw(MustBeDefined(envVarName), <<>>)
  ELSE IF NotAllowed(options, valueStr)
  THEN Throw(Unsupported(valueStr), <<ErrorUnsupported(valueStr)>>)
  ELSE Return(valueStr, <<>>)

parseEnvAsString000(e, envVarName, options) ==
  IF envVarName = NoName THEN Throw(NameIsNull, <<>>)
  ELSE String000Of(envVarName, options, Lookup(e, envVarName))

\* the closure handleDefault of parseEnvAsNumber
handleDefault(envVarName, options) ==
  IF ~IsNullish(options.defaultValue)
  THEN Return(options.defaultValue, <<WarnDefault(envVarName, options.defaultValue)>>)
  ELSE Throw(MustBeDefined(envVarName), <<>>)

\* parseEnvAsNumber from `const value = parseInt(valueStr)` on; `options` is a
\* required parameter here and is read without a null test
CheckNumber000(envVarName, options, valueStr, value) ==
  IF IsNullish(value) THEN Throw(NotANumber(envVarName, valueStr), <<>>)
  ELSE IF ~IsNullish(options.min) /\ Less(value, options.min)
  THEN Throw(AtLeast(envVarName, valueStr, options.min), <<>>)
  ELSE IF ~IsNullish(options.max) /\ Less(options.max, value)
  THEN Throw(NoGreater(envVarName, valueStr, options.max), <<>>)
  ELSE Return(value, <<>>)

Number000Of(envVarName, options, valueStr) ==
  IF IsNullish(valueStr) THEN handleDefault(envVarName, options)
  ELSE CheckNumber000(envVarName, options, valueStr, parseInt(valueStr.s))

parseEnvAsNumber000(e, envVarName, options) ==
  IF envVarName = NoName THEN Throw(NameIsNull, <<>>)
  ELSE Number000Of(envVarName, options, Lookup(e, envVarName))

\* -------------------------------------------------------------- constants
\* PartialEnv.VALID_NODE_ENV
VALID_NODE_ENV ==
  { <<"d","e","v","e","l","o","p","m","e","n","t">>,
    <<"p","r","o","d","u","c","t","i","o","n">>,
    <<"t","e","s","t">> }

\* ------------------------------------------------------------------ inputs
RECURSIVE StringsUpTo(_, _)
StringsUpTo(alphabet, len) ==
  IF len = 0 THEN { <<>> }
  ELSE LET shorter == StringsUpTo(alphabet, len - 1) IN
       shorter \cup { <<c>> \o s : c \in alphabet, s \in { x \in shorter : Len(x) = len - 1 } }

Alphabet == {"1", "-", "a"}

\* values a text variable is given
SampleWords ==
  { <<>>, <<"t","e","s","t">>, <<"s","t","a","g","i","n","g">>,
    <<"a","b","c","1","2","3">> }

\* values a numeric variable is given, besides every string over Alphabet
SampleNumerals ==
  { <<"8","0","8","0","a","b","c">>, <<"3","0","0","0">>, <<"9","9","9","9","9">>,
    <<"0","x","1","a">>, <<" ","4","2">>, <<"+","7">> }

RawWords == SampleWords
RawNumerals == SampleNumerals \cup StringsUpTo(Alphabet, MaxLen)

EnvNames == {"NODE_ENV", "PORT"}
NameArgs == EnvNames \cup {NoName}

\* process.env at startup: each variable absent or set
Environments ==
  { [NODE_ENV |-> a, PORT |-> b] :
      a \in {Undef} \cup { Str(s) : s \in RawWords },
      b \in {Undef} \cup { Str(s) : s \in RawNumerals } }

StringOptionValues ==
  {NoOptions} \cup
  { StringOptions(d, a) :
      d \in {Undef, Null, Str(<<>>), Str(<<"t","e","s","t">>)},
      a \in {NoSet, SetOf(VALID_NODE_ENV), SetOf({})} }

NumberOptionObjects ==
  { NumberOptions(d, lo, hi) :
      d \in {Undef, Null, Num(0), Num(5)},
      lo \in {Undef, Num(1), Num(10)},
      hi \in {Undef, Num(0), Num(100)} }

NumberOptionValues == {NoOptions} \cup NumberOptionObjects

\* ------------------------------------------------------------------- state
VARIABLES
  build,     \* which source file the class is built from: "lib" or "part000"
  env,       \* process.env
  calls,     \* the resolver calls made so far, each with what it did
  log,       \* what this.logger has written, in order
  pc,        \* the constructor's position: "idle", 1..5, "done", "failed"
  self,      \* the private fields of `this`
  instance,  \* what `new` handed to the caller: NoInstance until it returns
  defaults,  \* the constructor's `defaults` argument
  thrown     \* the error the constructor let through, NoError if none

vars == <<build, env, calls, log, pc, self, instance, defaults, thrown>>

Builds == {"lib", "part000"}

NoFields == [sessionSecret |-> Undef, nodeEnv |-> Undef, port |-> Undef,
             serverHost |-> Undef, fromEmail |-> Undef]
NoInstance == [exists |-> FALSE, fields |-> NoFields]
NoDefaults == [port |-> Undef, host |-> Undef, fromEmail |-> Undef]

\* the method `fn` of the build, applied
Apply(fn, e, envVarName, options) ==
  CASE fn = "parseEnvAsStringOrNull" -> parseEnvAsStringOrNull(e, envVarName, options)
    [] fn = "parseEnvAsString" -> parseEnvAsString(e, envVarName, options)
    [] fn = "parseEnvAsNumberOrNull" -> parseEnvAsNumberOrNull(e, envVarName, options)
    [] fn = "parseEnvAsNumber" -> parseEnvAsNumber(e, envVarName, options)
    [] fn = "parseEnvAsString000" -> parseEnvAsString000(e, envVarName, options)
    [] fn = "parseEnvAsNumber000" -> parseEnvAsNumber000(e, envVarName, options)

CallRecord(fn, envVarName, options, out) ==
  [fn |-> fn, name |-> envVarName, options |-> options, outcome |-> out]

\* What a call leaves behind: its record, and its notes in the log.
Record(fn, envVarName, options, out) ==
  /\ calls' = Append(calls, CallRecord(fn, envVarName, options, out))
  /\ log' = log \o out.notes

\* as Call, but a substituted string default is written back to process.env
Call_CachesDefault(fn, envVarName, options) ==
  /\ pc = "idle"
  /\ Record(fn, envVarName, options, Apply(fn, env, envVarName, options))
  /\ env' = IF envVarName \in DOMAIN env /\ env[envVarName] = Undef
               /\ options.given /\ options.defaultValue.t = "string"
            THEN [env EXCEPT ![envVarName] = options.defaultValue]
            ELSE env
  /\ UNCHANGED <<build, pc, self, instance, defaults, thrown>>

\* One call of a resolver method from outside the constructor: it reads
\* process.env, writes the logger, and returns or throws.
Call(fn, envVarName, options) ==
  /\ pc = "idle"
  /\ Record(fn, envVarName, options, Apply(fn, env, envVarName, options))
  /\ UNCHANGED <<build, env, pc, self, instance, defaults, thrown>>

\* ------------------------------------------ Spec: one call, any arguments
Init ==
  /\ build \in Builds
  /\ env \in Environments
  /\ calls = <<>>
  /\ log = <<>>
  /\ pc = "idle"
  /\ self = NoFields
  /\ instance = NoInstance
  /\ defaults = NoDefaults
  /\ thrown = NoError

CallStringOrNull ==
  \E n \in NameArgs, o \in StringOptionValues :
    build = "lib" /\ calls = <<>> /\ Call("parseEnvAsStringOrNull", n, o)

CallString ==
  \E n \in NameArgs, o \in StringOptionValues :
    build = "lib" /\ calls = <<>> /\ Call("parseEnvAsString", n, o)

CallNumberOrNull ==
  \E n \in NameArgs, o \in NumberOptionValues :
    build = "lib" /\ calls = <<>> /\ Call("parseEnvAsNumberOrNull", n, o)

CallNumber ==
  \E n \in NameArgs, o \in NumberOptionValues :
    build = "lib" /\ calls = <<>> /\ Call("parseEnvAsNumber", n, o)

CallString000 ==
  \E n \in NameArgs, o \in StringOptionValues :
    build = "part000" /\ calls = <<>> /\ Call("parseEnvAsString000", n, o)

CallNumber000 ==
  \E n \in NameArgs, o \in NumberOptionObjects :
    build = "part000" /\ calls = <<>> /\ Call("parseEnvAsNumber000", n, o)

Next ==
  \/ CallStringOrNull
  \/ CallString
  \/ CallNumberOrNull
  \/ CallNumber
  \/ CallString000
  \/ CallNumber000

Spec == Init /\ [][Next]_vars

\* ------------------------- SpecPure: declared fields, resolved repeatedly
MaxResolutions == 2

\* the methods a build has
MethodsOf(b) ==
  IF b = "lib"
  THEN {"parseEnvAsStringOrNull", "parseEnvAsString",
        "parseEnvAsNumberOrNull", "parseEnvAsNumber"}
  ELSE {"parseEnvAsString000", "parseEnvAsNumber000"}

\* field declarations a caller resolves, per method
DeclaredFields(fn) ==
  IF fn \in {"parseEnvAsStringOrNull", "parseEnvAsString", "parseEnvAsString000"}
  THEN { [name |-> "NODE_ENV",
          options |-> StringOptions(Str(<<"t","e","s","t">>), SetOf(VALID_NODE_ENV))],
         [name |-> "PORT", options |-> StringOptions(Undef, NoSet)] }
  ELSE { [name |-> "PORT", options |-> NumberOptions(Num(5), Num(1), Num(100))],
         [name |-> "NODE_ENV", options |-> NumberOptions(Undef, Undef, Num(0))] }

Resolve ==
  \E fn \in MethodsOf(build) : \E f \in DeclaredFields(fn) :
    Len(calls) < MaxResolutions /\ Call(fn, f.name, f.options)

NextPure == Resolve

SpecPure == Init /\ [][NextPure]_vars

\* ------------------------------------------- SpecCtor: new PartialEnv(...)
\* the five assignments of the constructor, in program order
CtorOrder == <<"sessionSecret", "nodeEnv", "port", "serverHost", "fromEmail">>

\* what the assignment to each field calls
Statement(field, d) ==
  CASE field = "sessionSecret" ->
         [type |-> "string", name |-> "SESSION_SECRET", options |-> NoOptions]
    [] field = "nodeEnv" ->
         [type |-> "string", name |-> "NODE_ENV",
          options |-> StringOptions(Undef, SetOf(VALID_NODE_ENV))]
    [] field = "port" ->
         [type |-> "number", name |-> "PORT",
          options |-> NumberOptions(d.port, Undef, Undef)]
    [] field = "serverHost" ->
         [type |-> "string", name |-> "SERVER_HOST",
          options |-> StringOptions(d.host, NoSet)]
    [] field = "fromEmail" ->
         [type |-> "string", name |-> "FROM_EMAIL",
          options |-> StringOptions(d.fromEmail, NoSet)]

\* this.parseEnvAsString / this.parseEnvAsNumber of the build
MethodOf(b, type) ==
  IF b = "lib"
  THEN (IF type = "string" THEN "parseEnvAsString" ELSE "parseEnvAsNumber")
  ELSE (IF type = "string" THEN "parseEnvAsString000" ELSE "parseEnvAsNumber000")

IndexOf(field) == CHOOSE k \in 1..Len(CtorOrder) : CtorOrder[k] = field
After(field) ==
  IF IndexOf(field) = Len(CtorOrder) THEN "done" ELSE CtorOrder[IndexOf(field) + 1]

SampleHost == <<"h","o","s","t">>
SampleEmail == <<"a","@","b">>

CtorEnvironments ==
  { [SESSION_SECRET |-> a, NODE_ENV |-> b, PORT |-> c, SERVER_HOST |-> d,
     FROM_EMAIL |-> e] :
      a \in {Undef, Str(<<"a","b","c","1","2","3">>)},
      b \in {Undef} \cup { Str(s) : s \in RawWords },
      c \in {Undef} \cup { Str(s) : s \in RawNumerals },
      d \in {Undef, Str(SampleHost)},
      e \in {Undef, Str(SampleEmail)} }

DefaultsValues ==
  { [port |-> Num(8080), host |-> Str(SampleHost), fromEmail |-> Str(SampleEmail)],
    [port |-> Num(0), host |-> Str(<<>>), fromEmail |-> Str(SampleEmail)] }

InitCtor ==
  /\ build \in Builds
  /\ env \in CtorEnvironments
  /\ calls = <<>>
  /\ log = <<>>
  /\ pc = "idle"
  /\ self = NoFields
  /\ instance = NoInstance
  /\ defaults = NoDefaults
  /\ thrown = NoError

\* `new` enters the constructor: the logger is created, no field is set yet
New ==
  \E d \in DefaultsValues :
    /\ pc = "idle" /\ calls = <<>>
    /\ defaults' = d
    /\ pc' = CtorOrder[1]
    /\ UNCHANGED <<build, env, calls, log, self, instance, thrown>>

\* what one assignment does with the outcome of its call
Assign_ErrorSwallowed(field, st, out) ==
  /\ Record(MethodOf(build, st.type), st.name, st.options, out)
  /\ self' = [self EXCEPT ![field] = out.value]
  /\ pc' = After(field)
  /\ thrown' = thrown
  /\ instance' = IF After(field) = "done"
                 THEN [exists |-> TRUE, fields |-> self'] ELSE instance

Assign(field, st, out) ==
  /\ Record(MethodOf(build, st.type), st.name, st.options, out)
  /\ IF out.kind = "throw"
     THEN /\ pc' = "failed"
          /\ thrown' = out.error
          /\ UNCHANGED <<self, instance>>
     ELSE /\ self' = [self EXCEPT ![field] = out.value]
          /\ pc' = After(field)
          /\ thrown' = thrown
          /\ instance' = IF After(field) = "done"
                         THEN [exists |-> TRUE, fields |-> self'] ELSE instance

\* one assignment `this._field = this.parseEnvAs...(...)` of the constructor
CtorStep ==
  /\ pc \in { CtorOrder[k] : k \in 1..Len(CtorOrder) }
  /\ Assign(pc, Statement(pc, defaults),
            Apply(MethodOf(build, Statement(pc, defaults).type), env,
                  Statement(pc, defaults).name, Statement(pc, defaults).options))
  /\ UNCHANGED <<build, env, defaults>>

NextCtor ==
  \/ New
  \/ CtorStep

SpecCtor == InitCtor /\ [][NextCtor]_vars

\* ----------------------------------------------------- reading the calls
CallIndices == 1..Len(calls)
RequiredFns == {"parseEnvAsString", "parseEnvAsNumber",
                "parseEnvAsString000", "parseEnvAsNumber000"}
StringFns == {"parseEnvAsStringOrNull", "parseEnvAsString", "parseEnvAsString000"}
NumberFns == {"parseEnvAsNumberOrNull", "parseEnvAsNumber", "parseEnvAsNumber000"}

\* the raw value the call found in the environment
RawOf(c) == Lookup(env, c.name)
Named(c) == c.name # NoName
Absent(c) == Named(c) /\ RawOf(c) = Undef
Present(c) == Named(c) /\ RawOf(c) # Undef
\* the field spec carries a default value
CarriesDefault(c) == c.options.given /\ ~IsNullish(c.options.defaultValue)
\* the field spec has no default at all
WithoutDefault(c) == ~c.options.given \/ c.options.defaultValue = Undef
HasMin(c) == c.options.given /\ c.options.min.t = "number"
HasMax(c) == c.options.given /\ c.options.max.t = "number"
HasAllowed(c) == c.options.given /\ c.options.allowed.t = "set"
\* what parseInt makes of the raw value the call found
ParsedOf(c) == parseInt(RawOf(c).s)
\* the notifications of a sequence of calls, in order
RECURSIVE NotesOf(_)
NotesOf(cs) == IF cs = <<>> THEN <<>> ELSE Head(cs).outcome.notes \o NotesOf(Tail(cs))
\* the order in which the constructor is to resolve the variables
DeclarationOrder == <<"SESSION_SECRET", "NODE_ENV", "PORT", "SERVER_HOST", "FROM_EMAIL">>

\* ------------------------------------------------------------------ claims
\* C1: when the variable is absent and the field spec carries a default, the
\* call returns exactly that default and logs exactly one "default used"
\* warning naming the variable and the default, and nothing else.
C1_DefaultReturnedWithOneWarning ==
  \A i \in CallIndices :
    (Absent(calls[i]) /\ CarriesDefault(calls[i])) =>
      calls[i].outcome =
        Return(calls[i].options.defaultValue,
               <<WarnDefault(calls[i].name, calls[i].options.defaultValue)>>)

\* a numeric default of 0 is returned, with its one warning
C1_Witness ==
  \E i \in CallIndices :
    /\ calls[i].fn \in NumberFns /\ Absent(calls[i]) /\ CarriesDefault(calls[i])
    /\ calls[i].outcome.value = Num(0) /\ Len(log) = 1

\* C2: when the variable is absent and the field spec has no default, the
\* call throws "<name> must be defined" and logs nothing.
C2_MissingRequiredThrowsSilently ==
  \A i \in CallIndices :
    (Absent(calls[i]) /\ WithoutDefault(calls[i])) =>
      calls[i].outcome = Throw(MustBeDefined(calls[i].name), <<>>)

C2_Witness ==
  \E i \in CallIndices :
    /\ Absent(calls[i]) /\ WithoutDefault(calls[i]) /\ calls[i].options.given
    /\ calls[i].fn = "parseEnvAsString000"
    /\ calls[i].outcome.kind = "throw" /\ log = <<>>

\* C3: with an allowed set and a present value, a value outside the set makes
\* the string resolver throw the unsupported-value error after exactly one
\* error-level notification carrying the value; a value inside the set is
\* returned unchanged with no notification.
C3_AllowedSetDecides ==
  \A i \in CallIndices :
    (calls[i].fn \in StringFns /\ Present(calls[i]) /\ HasAllowed(calls[i])) =>
      IF RawOf(calls[i]).s \in calls[i].options.allowed.members
      THEN calls[i].outcome = Return(RawOf(calls[i]), <<>>)
      ELSE /\ calls[i].outcome.kind = "throw"
           /\ calls[i].outcome.error.msg = "unsupported value"
           /\ calls[i].outcome.error.raw = RawOf(calls[i])
           /\ Len(calls[i].outcome.notes) = 1
           /\ calls[i].outcome.notes[1].level = "error"
           /\ calls[i].outcome.notes[1].msg = "unsupported value"
           /\ calls[i].outcome.notes[1].value = RawOf(calls[i])

C3_Witness ==
  \E i \in CallIndices :
    /\ calls[i].fn \in StringFns /\ Present(calls[i]) /\ HasAllowed(calls[i])
    /\ RawOf(calls[i]).s \notin calls[i].options.allowed.members
    /\ calls[i].options.allowed.members # {}
    /\ calls[i].outcome.kind = "throw" /\ Len(log) = 1

\* C4: a numeric resolver given a present raw value with no leading integer
\* (parseInt gives NaN) throws "is not a number"; it returns no value.
C4_NaNIsRejected ==
  \A i \in CallIndices :
    (calls[i].fn \in NumberFns /\ Present(calls[i])
       /\ parseInt(RawOf(calls[i]).s) = NaN) =>
      calls[i].outcome = Throw(NotANumber(calls[i].name, RawOf(calls[i])), <<>>)

\* C5: a numeric resolver given a present raw value that parses to an integer
\* v throws "must be at least" when a minimum is configured and v < min,
\* otherwise throws "must be no greater than" when a maximum is configured and
\* v > max, otherwise returns v; so a returned v lies within every configured
\* bound, and with min > max the minimum is the one reported.
C5_BoundsDecide ==
  \A i \in CallIndices :
    (calls[i].fn \in NumberFns /\ Present(calls[i])
       /\ ParsedOf(calls[i]).t = "number") =>
      /\ calls[i].outcome.notes = <<>>
      /\ IF HasMin(calls[i]) /\ ParsedOf(calls[i]).n < calls[i].options.min.n
         THEN calls[i].outcome.kind = "throw"
              /\ calls[i].outcome.error =
                   AtLeast(calls[i].name, RawOf(calls[i]), calls[i].options.min)
         ELSE IF HasMax(calls[i]) /\ ParsedOf(calls[i]).n > calls[i].options.max.n
         THEN calls[i].outcome.kind = "throw"
              /\ calls[i].outcome.error =
                   NoGreater(calls[i].name, RawOf(calls[i]), calls[i].options.max)
         ELSE calls[i].outcome.kind = "return"
              /\ calls[i].outcome.value = ParsedOf(calls[i])
      /\ calls[i].outcome.kind = "return" =>
           /\ HasMin(calls[i]) => calls[i].options.min.n <= calls[i].outcome.value.n
           /\ HasMax(calls[i]) => calls[i].outcome.value.n <= calls[i].options.max.n

\* min > max and v strictly between them: the minimum is reported
C5_Witness ==
  \E i \in CallIndices :
    /\ calls[i].fn \in NumberFns /\ Present(calls[i])
    /\ HasMin(calls[i]) /\ HasMax(calls[i])
    /\ ParsedOf(calls[i]).t = "number"
    /\ ParsedOf(calls[i]).n < calls[i].options.min.n
    /\ ParsedOf(calls[i]).n > calls[i].options.max.n
    /\ calls[i].outcome.error.msg = "must be at least"

\* C6: bounds are never applied to a default: with the variable absent and a
\* numeric default d, the numeric resolver returns d whatever min and max are.
C6_DefaultBypassesBounds ==
  \A i \in CallIndices :
    (calls[i].fn \in NumberFns /\ Absent(calls[i])
       /\ calls[i].options.given /\ calls[i].options.defaultValue.t = "number") =>
      /\ calls[i].outcome.kind = "return"
      /\ calls[i].outcome.value = calls[i].options.defaultValue

\* a default below the configured minimum is returned
C6_Witness ==
  \E i \in CallIndices :
    /\ calls[i].fn \in NumberFns /\ Absent(calls[i]) /\ HasMin(calls[i])
    /\ calls[i].options.defaultValue.t = "number"
    /\ calls[i].options.defaultValue.n < calls[i].options.min.n
    /\ calls[i].outcome = Return(calls[i].options.defaultValue, log)

\* C7: every error thrown by a resolver names the variable passed to the
\* call, and every notification of a failing call carries that name too.
C7_ErrorsNameTheVariable ==
  \A i \in CallIndices :
    (Named(calls[i]) /\ calls[i].outcome.kind = "throw") =>
      /\ calls[i].outcome.error.name = calls[i].name
      /\ \A k \in 1..Len(calls[i].outcome.notes) :
           calls[i].outcome.notes[k].name = calls[i].name

\* C10: a required variant never returns null or undefined; with the
\* variable absent and a null default it throws "<name> must be defined".
C10_RequiredNeverReturnsNull ==
  \A i \in CallIndices :
    calls[i].fn \in RequiredFns =>
      /\ calls[i].outcome.kind = "return" => ~IsNullish(calls[i].outcome.value)
      /\ (Absent(calls[i]) /\ calls[i].options.given
            /\ calls[i].options.defaultValue = Null) =>
           /\ calls[i].outcome.kind = "throw"
           /\ calls[i].outcome.error = MustBeDefined(calls[i].name)

\* the OrNull variant returned null (and warned); the required one threw
C10_Witness ==
  \E i \in CallIndices :
    /\ calls[i].fn \in {"parseEnvAsString", "parseEnvAsNumber"}
    /\ Absent(calls[i]) /\ calls[i].options.given
    /\ calls[i].options.defaultValue = Null
    /\ calls[i].outcome.kind = "throw" /\ Len(log) = 1

C9_ConstructionAllOrNothing ==
  /\ Len(calls) <= Len(DeclarationOrder)
  /\ \A i \in CallIndices : calls[i].name = DeclarationOrder[i]
  /\ \A i \in CallIndices : i < Len(calls) => calls[i].outcome.kind = "return"
  /\ log = NotesOf(calls)
  /\ instance.exists <=> pc = "done"
  /\ instance.exists =>
       /\ Len(calls) = Len(DeclarationOrder)
       /\ \A i \in CallIndices : calls[i].outcome.kind = "return"
       /\ instance.fields =
            [sessionSecret |-> calls[1].outcome.value,
             nodeEnv |-> calls[2].outcome.value,
             port |-> calls[3].outcome.value,
             serverHost |-> calls[4].outcome.value,
             fromEmail |-> calls[5].outcome.value]
       /\ \A f \in DOMAIN instance.fields : ~IsNullish(instance.fields[f])
  /\ pc = "failed" <=> (calls # <<>> /\ calls[Len(calls)].outcome.kind = "throw")
  /\ pc = "failed" =>
       /\ ~instance.exists
       /\ thrown = calls[Len(calls)].outcome.error

\* PORT fails as the third field, after a default-free success of the first two
C9_Witness ==
  /\ pc = "failed" /\ Len(calls) = 3
  /\ calls[3].name = "PORT"
  /\ Lookup(env, "SERVER_HOST") = Undef
  /\ log = <<>>

====
